---- MODULE Spec2Model ----
(***************************************************************************)
(* CRR_option_value of "Binomial Option Valuation.ipynb": one call of the  *)
(* Cox-Ross-Rubinstein valuation routine, statement by statement.          *)
(*                                                                         *)
(* Python floats are carried as fixed-point integers: the float x is the   *)
(* integer round(x * SCALE).  math.exp, math.sqrt, *, / and ** are         *)
(* computed on that representation (series, Newton iteration, long         *)
(* multiplication and division), so every product, quotient and power     *)
(* rounds, as it does in the program.                                      *)
(***************************************************************************)
EXTENDS Integers, Sequences, FiniteSets

VARIABLES S0, K, T, r, sigma, otype, M,   \* the arguments of the call
          pc,                             \* the statement to run next
          dt, df, u, d, q,                \* time and binomial parameters
          S, V,                           \* index-level grid, value grid
          t,                              \* remaining values of the loop variable
          reads,                          \* cells of V read by the latest iteration
          order,                          \* columns written, in order of writing
          result, exc                     \* returned value, raised exception

vars == <<S0, K, T, r, sigma, otype, M, pc, dt, df, u, d, q, S, V, t,
          reads, order, result, exc>>

\* ------------------------------------------------------------- bounds
MaxM == 4

\* ------------------------------------------------- float arithmetic
SCALE == 10000000
ONE == SCALE
HALF == SCALE \div 2
\* 1e-3 on the fixed-point scale
Tol == SCALE \div 1000

ExpTerms == 14
SqrtIters == 8

Abs(x) == IF x < 0 THEN -x ELSE x
Max(x, y) == IF x >= y THEN x ELSE y
Close(x, y) == Abs(x - y) <= Tol

\* int -> float
ToFloat(n) == n * SCALE

\* x * y, rounded to the nearest unit of the scale (no intermediate exceeds 2^31)
Mul(x, y) ==
    LET x1 == x \div 10000
        x0 == x % 10000
        y1 == y \div 10000
        y0 == y % 10000
        m1 == x1 * y0
        m2 == x0 * y1
    IN  x1 * y1 * 10 + (m1 \div 1000) + (m2 \div 1000)
        + ((((m1 % 1000) + (m2 % 1000)) * 10000 + x0 * y0 + HALF) \div SCALE)

RECURSIVE DivDigits(_, _, _)
DivDigits(rem, y, n) ==
    IF n = 0 THEN 0
    ELSE LET x10 == rem * 10
         IN  (x10 \div y) * (10 ^ (n - 1)) + DivDigits(x10 % y, y, n - 1)

\* x / y for y # 0, by long division to the digits of the scale
Div(x, y) ==
    LET a == IF y < 0 THEN -x ELSE x
        b == IF y < 0 THEN -y ELSE y
    IN  (a \div b) * SCALE + DivDigits(a % b, b, 7)

RECURSIVE ExpSeries(_, _, _)
ExpSeries(x, term, n) ==
    IF n > ExpTerms THEN 0
    ELSE term + ExpSeries(x, Mul(term, x) \div n, n + 1)

\* math.exp
Exp(x) == ExpSeries(x, ONE, 1)

RECURSIVE Newton(_, _, _)
Newton(x, y, n) ==
    IF n = 0 THEN y ELSE Newton(x, (y + Div(x, y)) \div 2, n - 1)

\* math.sqrt for x >= 0 (the caller raises ValueError for x < 0)
Sqrt(x) == IF x = 0 THEN 0 ELSE Newton(x, ONE, SqrtIters)

RECURSIVE Pow(_, _)
\* b ** n for a float b and an integer n
Pow(b, n) ==
    IF n = 0 THEN ONE
    ELSE IF n > 0 THEN Mul(b, Pow(b, n - 1))
    ELSE Div(ONE, Pow(b, -n))

\* ------------------------------------------------------ the arguments
\* The notebook's scenario (S0 = K = 100, T = 1, r = 0.05, sigma = 0.2, M = 4)
\* and arguments around it, valid and invalid.
S0Values == {ToFloat(100), 0}
KValues == {ToFloat(100), ToFloat(90), ToFloat(-10)}
TValues == {ONE, 0, -ONE}
rValues == {5 * (SCALE \div 100), 0, 3 * (SCALE \div 10), -3 * (SCALE \div 10)}
sigmaValues == {2 * (SCALE \div 10), 0, -15 * (SCALE \div 100)}
otypeValues == {"call", "put", "straddle"}
MValues == -1 .. MaxM

EmptyGrid == [c \in {} |-> 0]

Init ==
    /\ S0 \in S0Values
    /\ K \in KValues
    /\ T \in TValues
    /\ r \in rValues
    /\ sigma \in sigmaValues
    /\ otype \in otypeValues
    /\ M \in MValues
    /\ pc = "time"
    /\ dt = 0 /\ df = 0 /\ u = 0 /\ d = 0 /\ q = 0
    /\ S = EmptyGrid /\ V = EmptyGrid
    /\ t = 0
    /\ reads = {}
    /\ order = <<>>
    /\ result = 0
    /\ exc = "none"

args == <<S0, K, T, r, sigma, otype, M>>

Raise(e) == pc' = "raised" /\ exc' = e

\* ------------------------------------------------- Time Parameters
\* dt = T / M ; df = math.exp(-r * dt)
TimeParameters ==
    /\ pc = "time"
    /\ IF M = 0
       THEN /\ Raise("ZeroDivisionError")
            /\ UNCHANGED <<dt, df>>
       ELSE /\ dt' = Div(T, ToFloat(M))
            /\ df' = Exp(Mul(-r, dt'))
            /\ pc' = "binomial"
            /\ exc' = exc
    /\ UNCHANGED <<args, u, d, q, S, V, t, reads, order, result>>

\* --------------------------------------------- Binomial Parameters
UpMovement == Exp(Mul(sigma, Sqrt(dt)))
DownMovement(up) == Div(ONE, up)
BranchProbability(up, down) == Div(Exp(Mul(r, dt)) - down, up - down)

\* u = math.exp(sigma * math.sqrt(dt)) ; d = 1 / u ;
\* q = (math.exp(r * dt) - d) / (u - d)
BinomialParameters ==
    /\ pc = "binomial"
    /\ IF dt < 0
       THEN /\ Raise("ValueError")
            /\ UNCHANGED <<u, d, q>>
       ELSE /\ u' = UpMovement
            /\ d' = DownMovement(u')
            /\ IF u' - d' = 0
               THEN /\ Raise("ZeroDivisionError")
                    /\ q' = q
               ELSE /\ q' = BranchProbability(u', d')
                    /\ pc' = "levels"
                    /\ exc' = exc
    /\ UNCHANGED <<args, dt, df, S, V, t, reads, order, result>>

\* --------------------------- Array Initialization for Index Levels
\* np.arange(n)
Arange(n) == [k \in 0 .. n - 1 |-> k]

\* np.resize(a, (n, n)) of a one-dimensional a of length len: a repeated in
\* row-major order
Resize(a, len, n) ==
    [c \in (0 .. n - 1) \X (0 .. n - 1) |-> a[(c[1] * n + c[2]) % len]]

\* a transpose that is forgotten: md = mu
TransposeIdentity(m) == m

\* np.transpose of a square array
Transpose(m) == [c \in DOMAIN m |-> m[c[2], c[1]]]

\* mu = np.resize(np.arange(M + 1), (M + 1, M + 1)); md = np.transpose(mu);
\* mu = u ** (mu - md); md = d ** md; S = S0 * mu * md
IndexLevels(s0, up, down, n) ==
    LET mu0 == Resize(Arange(n + 1), n + 1, n + 1)
        md0 == Transpose(mu0)
        mu1 == [c \in DOMAIN mu0 |-> Pow(up, mu0[c] - md0[c])]
        md1 == [c \in DOMAIN md0 |-> Pow(down, md0[c])]
    IN  [c \in DOMAIN mu0 |-> Mul(Mul(s0, mu1[c]), md1[c])]

BuildLevels ==
    /\ pc = "levels"
    /\ S' = IndexLevels(S0, u, d, M)
    /\ pc' = "inner"
    /\ UNCHANGED <<args, dt, df, u, d, q, V, t, reads, order, result, exc>>

\* ---------------------------------------------------- Inner Values
\* np.maximum(S - K, 0) if otype == 'call' else np.maximum(K - S, 0)
Payoff(kind, level, strike) ==
    IF kind = "call" THEN Max(level - strike, 0) ELSE Max(strike - level, 0)

InnerValueGrid(kind, levels, strike) ==
    [c \in DOMAIN levels |-> Payoff(kind, levels[c], strike)]

\* range(M - 1, 0, -1): the loop stops one column short
RangeHasOffByOne(j) == j > 0

\* range(M - 1, -1, -1): first value, membership, successor
RangeFirst(n) == n - 1
RangeHas(j) == j > -1
RangeNext(j) == j - 1

InnerValues ==
    /\ pc = "inner"
    /\ V' = InnerValueGrid(otype, S, K)
    /\ t' = RangeFirst(M)
    /\ pc' = "loop"
    /\ UNCHANGED <<args, dt, df, u, d, q, S, reads, order, result, exc>>

\* ------------------------------- Step-by-Step Backwards Valuation
\* the slices 0:t+1 and 1:t+2 of the triangle, in place of 0:M-t and 1:M-t+1
SliceStopTriangle(n, j) == j + 1

\* the stop M-t of the row slices 0:M-t (and, plus one, of 1:M-t+1)
SliceStop(n, j) == n - j

\* the column index t on the left of the assignment
TargetColumn(j) == j

\* the branch weights exchanged: (q * b + (1 - q) * a) * df
DiscountedSwapped(a, b) == Mul(Mul(q, b) + Mul(ONE - q, a), df)

\* (q * a + (1 - q) * b) * df
Discounted(a, b) == Mul(Mul(q, a) + Mul(ONE - q, b), df)

\* V[0:M-t, t] = (q * V[0:M-t, t + 1] + (1 - q) * V[1:M-t + 1, t + 1]) * df
BackwardColumn(W, n, j) ==
    [c \in DOMAIN W |->
        IF c[2] = TargetColumn(j) /\ c[1] \in 0 .. SliceStop(n, j) - 1
        THEN Discounted(W[c[1], j + 1], W[c[1] + 1, j + 1])
        ELSE W[c]]

\* the cells of V that iteration j reads: V[0:M-t, t+1] and V[1:M-t+1, t+1]
ReadCells(n, j) ==
    {<<i, j + 1>> : i \in 0 .. SliceStop(n, j) - 1}
        \cup {<<i, j + 1>> : i \in 1 .. SliceStop(n, j)}

RECURSIVE BackwardPass(_, _, _)
\* the whole loop, from loop value j on, applied to the grid W
BackwardPass(W, n, j) ==
    IF RangeHas(j) THEN BackwardPass(BackwardColumn(W, n, j), n, RangeNext(j))
    ELSE W

BackwardStep ==
    /\ pc = "loop"
    /\ RangeHas(t)
    /\ V' = BackwardColumn(V, M, t)
    /\ reads' = ReadCells(M, t)
    /\ order' = Append(order, TargetColumn(t))
    /\ t' = RangeNext(t)
    /\ UNCHANGED <<args, pc, dt, df, u, d, q, S, result, exc>>

\* return V[0, 0], once the range is exhausted
Return ==
    /\ pc = "loop"
    /\ ~RangeHas(t)
    /\ IF <<0, 0>> \in DOMAIN V
       THEN /\ result' = V[0, 0]
            /\ pc' = "done"
            /\ exc' = exc
       ELSE /\ Raise("IndexError")
            /\ result' = result
    /\ UNCHANGED <<args, dt, df, u, d, q, S, V, t, reads, order>>

Next ==
    \/ TimeParameters
    \/ BinomialParameters
    \/ BuildLevels
    \/ InnerValues
    \/ BackwardStep
    \/ Return

Spec == Init /\ [][Next]_vars

\* ------------------------------------------------------- the claims
Returned == pc = "done"
Terminated == pc \in {"done", "raised"}
LevelsBuilt == pc \in {"inner", "loop", "done"}

\* the arguments the documentation allows, but for the option type
ValidInputs == S0 > 0 /\ K > 0 /\ T > 0 /\ sigma > 0 /\ M >= 1
SupportedType == otype \in {"call", "put"}
\* the branch probability is a probability
ArbitrageFree == 0 < q /\ q < ONE

\* the reachable nodes (state i, step j) of a lattice of n steps
Triangle(n) == {c \in (0 .. n) \X (0 .. n) : c[1] <= c[2]}

\* exp(-r * T) * K, the discounted strike
DiscountedStrike == Mul(K, Exp(Mul(-r, T)))

\* the price of the put on the lattice of the current call
PutPrice == BackwardPass(InnerValueGrid("put", S, K), M, RangeFirst(M))[0, 0]

ReferenceArgs ==
    <<ToFloat(100), ToFloat(100), ONE, 5 * (SCALE \div 100), 2 * (SCALE \div 10),
      "call", 4>>
\* 9.491
ReferencePrice == 9491 * (SCALE \div 1000)

\* C1: when the call returns for valid arguments and M >= 1, every cell (i, j) of the triangle with
\* j < M holds df * (q * V[i, j+1] + (1 - q) * V[i+1, j+1]) (to 1e-3), and
\* column M holds the terminal payoffs.
C1_BackwardInduction ==
    (Returned /\ ValidInputs /\ ArbitrageFree /\ SupportedType) =>
        /\ \A i \in 0 .. M : V[i, M] = Payoff(otype, S[i, M], K)
        /\ \A c \in Triangle(M - 1) :
               Close(V[c], Mul(df, Mul(q, V[c[1], c[2] + 1])
                                   + Mul(ONE - q, V[c[1] + 1, c[2] + 1])))

\* C2: the call (100, 100, 1, 0.05, 0.2, 'call', 4) returns a price within 1e-3
\* of 9.491.
C2_ReferenceScenario ==
    (Returned /\ args = ReferenceArgs) => Abs(result - ReferencePrice) <= Tol

C2_Witness == Returned /\ args = ReferenceArgs

\* C3: for M = 1 the returned price is df * (q * payoff(u * S0) + (1 - q) *
\* payoff(d * S0)), with payoff(x) = max(x - K, 0) for a call and max(K - x, 0)
\* for a put.
C3_SingleStep ==
    (Returned /\ M = 1 /\ SupportedType) =>
        LET up == Mul(u, S0)
            down == Mul(d, S0)
            pu == IF otype = "call" THEN Max(up - K, 0) ELSE Max(K - up, 0)
            pd == IF otype = "call" THEN Max(down - K, 0) ELSE Max(K - down, 0)
        IN  result = Mul(df, Mul(q, pu) + Mul(ONE - q, pd))

C3_Witness ==
    Returned /\ M = 1 /\ otype = "call" /\ ValidInputs /\ result > 0 /\ q > 0 /\ q < ONE

\* C4: for valid arguments, q in (0, 1) and M >= 1, the call price minus the put price on
\* the same lattice is S0 - K * exp(-r * T) (to 1e-3).
C4_PutCallParity ==
    (Returned /\ ValidInputs /\ ArbitrageFree /\ otype = "call") =>
        Close(result - PutPrice, S0 - DiscountedStrike)

\* C5: a call (otherwise valid) whose option type is neither 'call' nor 'put' ends in an
\* UnsupportedOptionType failure and returns no price.
C5_UnsupportedOptionType ==
    (Terminated /\ ValidInputs /\ (Returned => ArbitrageFree) /\ ~SupportedType) =>
        (pc = "raised" /\ exc = "UnsupportedOptionType")

\* C6: a call with a non-positive S0, K, T, sigma or M, or with q outside
\* (0, 1), ends in an InvalidParameters failure before any grid is built, and
\* returns no price.
C6_InvalidParameters ==
    (Terminated /\ (~ValidInputs \/ (Returned /\ ~ArbitrageFree))) =>
        (pc = "raised" /\ exc = "InvalidParameters" /\ S = EmptyGrid /\ V = EmptyGrid)

\* C7: for positive S0, K, T, sigma, M >= 1 and either option type, no cell of
\* the value grid is negative during the backward pass, and the returned price
\* is not negative.
C7_NonNegativePrice ==
    (ValidInputs /\ SupportedType /\ pc \in {"loop", "done"}) =>
        /\ \A c \in DOMAIN V : V[c] >= 0
        /\ Returned => result >= 0

\* C8: every cell (i, j) the backward pass reads lies in the triangle,
\* 0 <= i <= j <= M (stated for valid arguments).
C8_ReadsInsideTriangle ==
    (ValidInputs /\ ArbitrageFree /\ SupportedType) =>
        \A c \in reads : 0 <= c[1] /\ c[1] <= c[2] /\ c[2] <= M

\* C9: once the grid is built, d = 1/u, S[i, j] = S0 * u^(j-i) * d^i at every
\* node of the triangle, the node reached by an up-move and a down-move (in
\* either order) carries the price of the node left (to 1e-3), and step j has
\* j + 1 distinct prices (for S0 # 0).
C9_RecombiningGrid ==
    LevelsBuilt =>
        /\ DOMAIN S = (0 .. M) \X (0 .. M)
        /\ d = Div(ONE, u)
        /\ \A c \in Triangle(M) :
              /\ S[c] = Mul(Mul(S0, Pow(u, c[2] - c[1])), Pow(d, c[1]))
              /\ c[2] + 2 <= M => Close(S[c[1] + 1, c[2] + 2], S[c])
        /\ S0 # 0 => \A j \in 0 .. M : Cardinality({S[i, j] : i \in 0 .. j}) = j + 1

C9_Witness == LevelsBuilt /\ M >= 3 /\ S0 > 0 /\ S[1, 3] # S[0, 3]

\* C10: the backward pass runs M iterations, on the columns M-1, M-2, ..., 0
\* in that order, each iteration writing its own column only; column M and
\* the index-level grid are never written; the result is V[0, 0] as it stands
\* after column 0 was processed.
C10_ColumnOrder ==
    /\ [](Returned => (M >= 1 /\ order = [k \in 1 .. M |-> M - k]))
    /\ [][(pc = "loop" /\ pc' = "loop") =>
            /\ order' = Append(order, t)
            /\ t' < t
            /\ S' = S
            /\ \A c \in DOMAIN V : c[2] # t => V'[c] = V[c]
            /\ t < M]_vars
    /\ [][(pc = "loop" /\ pc' = "done") =>
            /\ order # <<>>
            /\ order[Len(order)] = 0
            /\ V' = V
            /\ result' = V[0, 0]]_vars

C10_Witness == Returned /\ M >= 3 /\ Len(order) = M

====
